---------------------------- MODULE Spec2Model ----------------------------
(***************************************************************************)
(* A model of the two scripts of icitadel/mcp-demo.                        *)
(*                                                                         *)
(*   main.py              the Tool Host entry point: obtains the shared    *)
(*                        server object, imports the tool-provider modules *)
(*                        (which register tools as a side effect) and, as  *)
(*                        the program entry point, calls the blocking      *)
(*                        mcp.run().                                       *)
(*   generate_parquet.py  the Converter: pd.read_csv, df.to_parquet with   *)
(*                        index=False, print of one confirmation line.     *)
(*                                                                         *)
(* One process runs one of the two scripts (variable prog).  The library   *)
(* calls are modelled by what they do to the data: read_csv parses lines   *)
(* of text fields into typed columns, to_parquet lays the frame out        *)
(* column by column between two magic markers with the schema in a footer, *)
(* read_parquet checks the markers and the footer and rebuilds the rows.   *)
(***************************************************************************)
EXTENDS Integers, Sequences, FiniteSets, TLC

VARIABLES
    prog,        \* the script this process executes
    name,        \* the value of __name__ inside the script
    pc,          \* the statement about to be executed
    err,         \* the uncaught exception that ended the script, or "none"
    stdout,      \* what has been written to standard output, with its writer
    stderr,      \* what has been written to standard error, with its writer
    srv,         \* environment: does `server` import and yield mcp
    plan,        \* environment: what each tool-provider module does on import
    mcp,         \* is the name mcp bound to the shared server object
    loaded,      \* the tool-provider modules whose import has completed
    raised,      \* the module whose import raised, or "none"
    registry,    \* the server's tool registry
    events,      \* history: what the Tool Host has done, in order
    input,       \* the file at data\sample.csv
    out,         \* the file at data\sample.parquet
    df,          \* the DataFrame bound by line 4
    runs,        \* how many times the Converter has been launched
    outAtStart,  \* history: the output file as the current run found it
    writes,      \* history: how many times the current run opened the output
    firstResult  \* history: the table the output held after the first success

vars == <<prog, name, pc, err, stdout, stderr, srv, plan, mcp, loaded, raised,
          registry, events, input, out, df, runs, outAtStart, writes,
          firstResult>>

hostVars == <<srv, plan, mcp, loaded, raised, registry, events>>
convVars == <<input, out, df, runs, outAtStart, writes, firstResult>>

(***************************************************************************)
(* Bounds of the model.                                                    *)
(***************************************************************************)
MaxTools == 2        \* tools one provider module registers, at most
MaxServerMsgs == 2   \* protocol messages the server writes while running
MaxFields == 4       \* text fields in the input CSV, over all its lines
MaxRuns == 2         \* launches of the Converter in sequence

Providers == <<"tools.csv_tools", "tools.parquet_tools">>
Fields == {"a", "b", "1"}

(***************************************************************************)
(* Sequence helpers.                                                       *)
(***************************************************************************)
Range(s) == {s[i] : i \in 1..Len(s)}

(***************************************************************************)
(* Files.  A missing file and an existing one have the same shape, so that *)
(* any two files can be compared.                                          *)
(***************************************************************************)
Absent == [exists |-> FALSE, content |-> <<>>]
File(c) == [exists |-> TRUE, content |-> c]

(* Every line of text of at least one field, from 1 to n fields in all. *)
RECURSIVE LinesOf(_)
LinesOf(n) ==
    IF n = 0 THEN {<<>>}
    ELSE {<<>>} \cup
         UNION {{<<l>> \o rest : l \in [1..k -> Fields], rest \in LinesOf(n - k)}
                : k \in 1..n}

CsvFiles == {File(ls) : ls \in LinesOf(MaxFields)}

(***************************************************************************)
(* pd.read_csv with its defaults: comma separated, first line the header.  *)
(***************************************************************************)
Null == <<"null", 0>>
IntOf == ("1" :> 1)
TextOf(v) == IF v[1] = "str" THEN v[2]
             ELSE CHOOSE s \in DOMAIN IntOf : IntOf[s] = v[2]

(* A repeated header name gets a numeric suffix: a, a.1, a.2, ... *)
Mangle(header) ==
    [j \in 1..Len(header) |->
        LET c == Cardinality({k \in 1..(j - 1) : header[k] = header[j]})
        IN  IF c = 0 THEN header[j] ELSE header[j] \o "." \o ToString(c)]

(* The text of field j of a data row, "" where the row is too short. *)
Cell(row, j) == IF j <= Len(row) THEN row[j] ELSE ""

(* A column is int64 when every cell is an integer, float64 when the     *)
(* cells present are integers and some are missing, object otherwise.    *)
Dtype(cells) ==
    IF cells = <<>> THEN "object"
    ELSE IF \A i \in 1..Len(cells) : cells[i] = "" THEN "float64"
    ELSE IF \A i \in 1..Len(cells) : cells[i] = "" \/ cells[i] \in DOMAIN IntOf
         THEN IF \E i \in 1..Len(cells) : cells[i] = "" THEN "float64"
              ELSE "int64"
    ELSE "object"

Value(dtype, text) ==
    IF text = "" THEN Null
    ELSE IF dtype = "object" THEN <<"str", text>>
    ELSE <<dtype, IntOf[text]>>

Frame(columns, dtypes, data, index) ==
    [columns |-> columns, dtypes |-> dtypes, data |-> data, index |-> index]

NoFrame == Frame(<<>>, <<>>, <<>>, <<>>)

Raise(e) == [err |-> e, df |-> NoFrame]

read_csv(f) ==
    IF ~f.exists THEN Raise("FileNotFoundError")
    ELSE IF f.content = <<>> THEN Raise("EmptyDataError")
    ELSE
      LET header == f.content[1]
          rows == Tail(f.content)
          M == Len(header)
          N == Len(rows)
          \* data rows wider than the header: the leading fields are the index
          lead == IF N > 0 /\ Len(rows[1]) > M THEN Len(rows[1]) - M ELSE 0
          column(j) == [i \in 1..N |-> Cell(rows[i], j + lead)]
          dtypes == [j \in 1..M |-> Dtype(column(j))]
      IN  IF \E i \in 1..N : Len(rows[i]) > M + lead
          THEN Raise("ParserError")
          ELSE [err |-> "none",
                df |-> Frame(Mangle(header), dtypes,
                             [i \in 1..N |->
                                [j \in 1..M |-> Value(dtypes[j], Cell(rows[i], j + lead))]],
                             [i \in 1..N |->
                                IF lead = 0 THEN <<"int64", i - 1>>
                                ELSE <<"str", rows[i][1]>>])]


(***************************************************************************)
(* The columnar file: a magic marker, one chunk per column holding that    *)
(* column's values, a footer holding the schema and the row count, and the *)
(* magic marker again.  Every piece has the same shape.                    *)
(***************************************************************************)
Piece(kind, colname, dtype, vals, schema, nrows) ==
    [dtype |-> dtype, kind |-> kind, name |-> colname, nrows |-> nrows,
     schema |-> schema, vals |-> vals]

Magic == Piece("PAR1", "", "", <<>>, <<>>, 0)
Chunk(colname, dtype, vals) == Piece("column", colname, dtype, vals, <<>>, 0)
Footer(schema, nrows) == Piece("footer", "", "", <<>>, schema, nrows)

(* The columns DataFrame.to_parquet stores: with index=True the index is *)
(* stored as a column of its own, ahead of the data columns.             *)
StoredColumnsWithIndex(frame, index) ==
    <<Chunk("__index_level_0__", "int64", frame.index)>> \o
    [j \in 1..Len(frame.columns) |->
        Chunk(frame.columns[j], frame.dtypes[j],
              [i \in 1..Len(frame.data) |-> frame.data[i][j]])]

StoredColumns(frame, index) ==
    (IF index
     THEN <<Chunk("__index_level_0__", "int64", frame.index)>>
     ELSE <<>>) \o
    [j \in 1..Len(frame.columns) |->
        Chunk(frame.columns[j], frame.dtypes[j],
              [i \in 1..Len(frame.data) |-> frame.data[i][j]])]

(* The bytes of the file df.to_parquet(path, index=...) writes. *)
Encode(frame, index) ==
    LET cols == StoredColumns(frame, index)
    IN  <<Magic>> \o cols \o
        <<Footer([j \in 1..Len(cols) |-> <<cols[j].name, cols[j].dtype>>],
                 Len(frame.data)),
          Magic>>

(* Reading the file back as a table.  The reader looks for the trailing   *)
(* magic marker and the footer before it, and takes the columns the       *)
(* footer's schema names.                                                 *)
IsParquet(f) ==
    /\ f.exists
    /\ Len(f.content) >= 3
    /\ f.content[1].kind = "PAR1"
    /\ f.content[Len(f.content)].kind = "PAR1"
    /\ f.content[Len(f.content) - 1].kind = "footer"
    /\ Len(f.content) = Len(f.content[Len(f.content) - 1].schema) + 3
    /\ \A j \in 2..(Len(f.content) - 2) : f.content[j].kind = "column"

Table(columns, data) == [columns |-> columns, data |-> data]

read_parquet(f) ==
    LET foot == f.content[Len(f.content) - 1]
    IN  Table([j \in 1..Len(foot.schema) |-> foot.schema[j][1]],
              [i \in 1..foot.nrows |->
                 [j \in 1..Len(foot.schema) |-> f.content[j + 1].vals[i]]])

(* What the file system holds after an attempt to write `bytes` to a file: *)
(* the open fails and leaves the file as it was ("denied"), or the file is *)
(* created or truncated and k pieces reach it before the write fails, or   *)
(* every piece is written.                                                  *)
WriteAppending(old, bytes, k) ==
    IF k < 0 THEN old
    ELSE IF /\ k = Len(bytes)
            /\ IsParquet(old)
            /\ IsParquet(File(bytes))
            /\ old.content[Len(old.content) - 1].schema = bytes[Len(bytes) - 1].schema
    THEN LET o == old.content
         IN  File(<<Magic>> \o
                  [j \in 1..(Len(bytes) - 3) |->
                     Chunk(bytes[j + 1].name, bytes[j + 1].dtype,
                           o[j + 1].vals \o bytes[j + 1].vals)] \o
                  <<Footer(bytes[Len(bytes) - 1].schema,
                           o[Len(o) - 1].nrows + bytes[Len(bytes) - 1].nrows),
                    Magic>>)
    ELSE File(SubSeq(bytes, 1, k))

WriteFooterFirst(old, bytes, k) ==
    IF k < 0 THEN old
    ELSE IF k = Len(bytes) THEN File(bytes)
    ELSE File(<<Magic, Footer(<<>>, 0), Magic>>)

WriteFile(old, bytes, k) ==
    IF k < 0 THEN old ELSE File(SubSeq(bytes, 1, k))


(***************************************************************************)
(* What both scripts share: an uncaught exception ends the script, and the *)
(* runtime, not the script, writes the traceback to standard error.        *)
(***************************************************************************)
Line(by, text) == [by |-> by, text |-> text]

Fail(e) ==
    /\ pc' = "exit"
    /\ err' = e
    /\ stderr' = Append(stderr, Line("runtime", e))

(***************************************************************************)
(* main.py                                                                 *)
(***************************************************************************)
Ev(ev, arg) == [ev |-> ev, arg |-> arg]

NoPlan == [m \in Range(Providers) |-> [n |-> 0, raises |-> FALSE]]
NoResult == [known |-> FALSE, table |-> Table(<<>>, <<>>)]

HostInit ==
    /\ prog = "main.py"
    /\ name \in {"__main__", "main"}
    /\ pc = "import_server"
    /\ err = "none"
    /\ stdout = <<>>
    /\ stderr = <<>>
    /\ srv \in BOOLEAN
    /\ plan \in [Range(Providers) -> [n : 0..MaxTools, raises : BOOLEAN]]
    /\ mcp = FALSE
    /\ loaded = <<>>
    /\ raised = "none"
    /\ registry = {}
    /\ events = <<>>
    /\ input = Absent
    /\ out = Absent
    /\ df = NoFrame
    /\ runs = 0
    /\ outAtStart = Absent
    /\ writes = 0
    /\ firstResult = NoResult

(* line 1: from server import mcp *)
ImportServerThenRun ==
    /\ prog = "main.py"
    /\ pc = "import_server"
    /\ IF srv
       THEN /\ mcp' = TRUE
            /\ events' = Append(events, Ev("obtain", "server"))
            /\ pc' = "entry"
            /\ UNCHANGED <<err, stderr, raised>>
       ELSE /\ Fail("ImportError")
            /\ raised' = "server"
            /\ UNCHANGED <<mcp, events>>
    /\ UNCHANGED <<prog, name, stdout, srv, plan, loaded, registry>>
    /\ UNCHANGED convVars

ImportServer ==
    /\ prog = "main.py"
    /\ pc = "import_server"
    /\ IF srv
       THEN /\ mcp' = TRUE
            /\ events' = Append(events, Ev("obtain", "server"))
            /\ pc' = "import_csv_tools"
            /\ UNCHANGED <<err, stderr, raised>>
       ELSE /\ Fail("ImportError")
            /\ raised' = "server"
            /\ UNCHANGED <<mcp, events>>
    /\ UNCHANGED <<prog, name, stdout, srv, plan, loaded, registry>>
    /\ UNCHANGED convVars

(* The tools module m registers while it is being imported, in order. *)
Registrations(m) == [i \in 1..plan[m].n |-> Ev("register", <<m, i>>)]

(* lines 4 and 5: import tools.csv_tools, import tools.parquet_tools *)
ImportProviderIgnoringErrors(m, here, next) ==
    /\ prog = "main.py"
    /\ pc = here
    /\ registry' = registry \cup {<<m, i>> : i \in 1..plan[m].n}
    /\ pc' = next
    /\ IF plan[m].raises
       THEN /\ events' = events \o Registrations(m)
            /\ raised' = m
            /\ UNCHANGED loaded
       ELSE /\ events' = events \o Registrations(m) \o <<Ev("loaded", m)>>
            /\ loaded' = Append(loaded, m)
            /\ UNCHANGED raised
    /\ UNCHANGED <<prog, name, err, stdout, stderr, srv, plan, mcp>>
    /\ UNCHANGED convVars

ImportProvider(m, here, next) ==
    /\ prog = "main.py"
    /\ pc = here
    /\ registry' = registry \cup {<<m, i>> : i \in 1..plan[m].n}
    /\ IF plan[m].raises
       THEN /\ Fail("ImportError")
            /\ events' = events \o Registrations(m)
            /\ raised' = m
            /\ UNCHANGED loaded
       ELSE /\ events' = events \o Registrations(m) \o <<Ev("loaded", m)>>
            /\ loaded' = Append(loaded, m)
            /\ pc' = next
            /\ UNCHANGED <<err, stderr, raised>>
    /\ UNCHANGED <<prog, name, stdout, srv, plan, mcp>>
    /\ UNCHANGED convVars

ImportCsvTools == ImportProvider(Providers[1], "import_csv_tools", "import_parquet_tools")

ImportParquetTools == ImportProvider(Providers[2], "import_parquet_tools", "entry")

(* lines 8 to 10: if __name__ == "__main__": mcp.run() *)
EntryPointUnguarded ==
    /\ prog = "main.py"
    /\ pc = "entry"
    /\ pc' = "mcp.run"
    /\ events' = Append(events, Ev("run", "mcp"))
    /\ UNCHANGED <<prog, name, err, stdout, stderr, srv, plan, mcp, loaded,
                   raised, registry>>
    /\ UNCHANGED convVars

EntryPointNeedsTools ==
    /\ prog = "main.py"
    /\ pc = "entry"
    /\ IF name = "__main__" /\ registry # {}
       THEN /\ pc' = "mcp.run"
            /\ events' = Append(events, Ev("run", "mcp"))
       ELSE /\ pc' = "exit"
            /\ UNCHANGED events
    /\ UNCHANGED <<prog, name, err, stdout, stderr, srv, plan, mcp, loaded,
                   raised, registry>>
    /\ UNCHANGED convVars

EntryPointPrinting ==
    /\ prog = "main.py"
    /\ pc = "entry"
    /\ IF name = "__main__"
       THEN /\ pc' = "mcp.run"
            /\ events' = Append(events, Ev("run", "mcp"))
            /\ stdout' = Append(stdout, Line("script", "Starting MCP server"))
       ELSE /\ pc' = "exit"
            /\ UNCHANGED <<events, stdout>>
    /\ UNCHANGED <<prog, name, err, stderr, srv, plan, mcp, loaded,
                   raised, registry>>
    /\ UNCHANGED convVars

EntryPoint ==
    /\ prog = "main.py"
    /\ pc = "entry"
    /\ IF name = "__main__"
       THEN /\ pc' = "mcp.run"
            /\ events' = Append(events, Ev("run", "mcp"))
       ELSE /\ pc' = "exit"
            /\ UNCHANGED events
    /\ UNCHANGED <<prog, name, err, stdout, stderr, srv, plan, mcp, loaded,
                   raised, registry>>
    /\ UNCHANGED convVars

(* Inside mcp.run(): the server owns the standard streams. *)
ServerWrites ==
    /\ prog = "main.py"
    /\ pc = "mcp.run"
    /\ Len(stdout) < MaxServerMsgs
    /\ stdout' = Append(stdout, Line("server", "jsonrpc"))
    /\ UNCHANGED <<prog, name, pc, err, stderr>>
    /\ UNCHANGED hostVars
    /\ UNCHANGED convVars

(* mcp.run() returns when the server is terminated; the script then ends. *)
RunReturns ==
    /\ prog = "main.py"
    /\ pc = "mcp.run"
    /\ pc' = "exit"
    /\ UNCHANGED <<prog, name, err, stdout, stderr>>
    /\ UNCHANGED hostVars
    /\ UNCHANGED convVars

HostStep == ImportServer \/ ImportCsvTools \/ ImportParquetTools \/ EntryPoint


(***************************************************************************)
(* generate_parquet.py                                                     *)
(***************************************************************************)
Confirmation == "Parquet file created successfully!"

(* An output file left by an earlier conversion of some other input. *)
StaleFile ==
    File(Encode(Frame(<<"old">>, <<"int64">>, <<<< <<"int64", 1>> >>>>,
                      << <<"int64", 0>> >>), FALSE))

ConvInit ==
    /\ prog = "generate_parquet.py"
    /\ name = "__main__"
    /\ pc = "read_csv"
    /\ err = "none"
    /\ stdout = <<>>
    /\ stderr = <<>>
    /\ srv = FALSE
    /\ plan = NoPlan
    /\ mcp = FALSE
    /\ loaded = <<>>
    /\ raised = "none"
    /\ registry = {}
    /\ events = <<>>
    /\ input \in {Absent} \cup CsvFiles
    /\ out \in {Absent, StaleFile}
    /\ df = NoFrame
    /\ runs = 1
    /\ outAtStart = out
    /\ writes = 0
    /\ firstResult = NoResult

(* line 4: df = pd.read_csv("data\\sample.csv") *)
ReadCsvDefaulting ==
    /\ prog = "generate_parquet.py"
    /\ pc = "read_csv"
    /\ LET r == read_csv(input)
       IN  /\ df' = r.df
           /\ pc' = "to_parquet"
           /\ UNCHANGED <<err, stderr>>
    /\ UNCHANGED <<prog, name, stdout, input, out, runs, outAtStart, writes,
                   firstResult>>
    /\ UNCHANGED hostVars

ReadCsv ==
    /\ prog = "generate_parquet.py"
    /\ pc = "read_csv"
    /\ LET r == read_csv(input)
       IN  IF r.err = "none"
           THEN /\ df' = r.df
                /\ pc' = "to_parquet"
                /\ UNCHANGED <<err, stderr>>
           ELSE /\ Fail(r.err)
                /\ UNCHANGED df
    /\ UNCHANGED <<prog, name, stdout, input, out, runs, outAtStart, writes,
                   firstResult>>
    /\ UNCHANGED hostVars

(* line 7: df.to_parquet("data\\sample.parquet", index=False) *)
ToParquetThenPrintEarly ==
    /\ prog = "generate_parquet.py"
    /\ pc = "to_parquet"
    /\ LET bytes == Encode(df, FALSE)
       IN  \E k \in -1..Len(bytes) :
             LET new == WriteFile(out, bytes, k)
             IN  /\ out' = new
                 /\ writes' = writes + 1
                 /\ stdout' = Append(stdout, Line("script", Confirmation))
                 /\ IF k = Len(bytes)
                    THEN /\ pc' = "exit"
                         /\ firstResult' =
                              IF firstResult.known THEN firstResult
                              ELSE [known |-> TRUE, table |-> read_parquet(new)]
                         /\ UNCHANGED <<err, stderr>>
                    ELSE /\ Fail(IF k < 0 THEN "PermissionError" ELSE "OSError")
                         /\ UNCHANGED firstResult
    /\ UNCHANGED <<prog, name, input, df, runs, outAtStart>>
    /\ UNCHANGED hostVars

ToParquet ==
    /\ prog = "generate_parquet.py"
    /\ pc = "to_parquet"
    /\ LET bytes == Encode(df, FALSE)
       IN  \E k \in -1..Len(bytes) :
             LET new == WriteFile(out, bytes, k)
             IN  /\ out' = new
                 /\ writes' = writes + 1
                 /\ IF k = Len(bytes)
                    THEN /\ pc' = "print"
                         /\ firstResult' =
                              IF firstResult.known THEN firstResult
                              ELSE [known |-> TRUE, table |-> read_parquet(new)]
                         /\ UNCHANGED <<err, stderr>>
                    ELSE /\ Fail(IF k < 0 THEN "PermissionError" ELSE "OSError")
                         /\ UNCHANGED firstResult
    /\ UNCHANGED <<prog, name, stdout, input, df, runs, outAtStart>>
    /\ UNCHANGED hostVars

(* line 9: print("... Parquet file created successfully!") *)
PrintConfirmation ==
    /\ prog = "generate_parquet.py"
    /\ pc = "print"
    /\ stdout' = Append(stdout, Line("script", Confirmation))
    /\ pc' = "exit"
    /\ UNCHANGED <<prog, name, err, stderr>>
    /\ UNCHANGED convVars
    /\ UNCHANGED hostVars

(* The script is launched again on the same files, as a new process. *)
Rerun ==
    /\ prog = "generate_parquet.py"
    /\ pc = "exit"
    /\ runs < MaxRuns
    /\ runs' = runs + 1
    /\ pc' = "read_csv"
    /\ err' = "none"
    /\ stdout' = <<>>
    /\ stderr' = <<>>
    /\ df' = NoFrame
    /\ outAtStart' = out
    /\ writes' = 0
    /\ UNCHANGED <<prog, name, input, out, firstResult>>
    /\ UNCHANGED hostVars

(***************************************************************************)
(* The specification.                                                      *)
(***************************************************************************)
Init == HostInit \/ ConvInit

Next ==
    \/ ImportServer
    \/ ImportCsvTools
    \/ ImportParquetTools
    \/ EntryPoint
    \/ ServerWrites
    \/ RunReturns
    \/ ReadCsv
    \/ ToParquet
    \/ PrintConfirmation
    \/ Rerun

Spec == Init /\ [][Next]_vars

(* The interpreter executes the statements of a script one after another: *)
(* a statement that can be executed is executed.                          *)
FairSpec == Spec /\ WF_vars(HostStep)


(***************************************************************************)
(* Properties of the Tool Host.                                            *)
(***************************************************************************)
Host == prog = "main.py"
Conv == prog = "generate_parquet.py"

RunInvoked == \E i \in 1..Len(events) : events[i].ev = "run"

AllTools == {<<m, i>> : m \in Range(Providers), i \in 1..MaxTools}
PlannedTools == {t \in AllTools : t[2] <= plan[t[1]].n}

(* C1: when the import of a tool-provider module raises, the script has    *)
(* ended with that ImportError, the runtime has put its traceback on       *)
(* standard error, and mcp.run has not been invoked; and whenever mcp.run  *)
(* has been invoked, every provider module had been loaded.                *)
C1_FailingProviderNeverRuns ==
    Host =>
      /\ raised \in Range(Providers) =>
           /\ pc = "exit"
           /\ err = "ImportError"
           /\ stderr = <<Line("runtime", "ImportError")>>
           /\ ~RunInvoked
      /\ RunInvoked => loaded = Providers /\ raised = "none"

C1_Witness ==
    /\ Host
    /\ raised = Providers[2]
    /\ loaded = <<Providers[1]>>
    /\ registry # {}
    /\ pc = "exit"

(* C2: what the entry point has done so far, registrations aside, is a     *)
(* prefix of: obtain the server object, load csv_tools, load               *)
(* parquet_tools, invoke run; and no registration follows the call of run. *)
StartupOrder ==
    <<Ev("obtain", "server"), Ev("loaded", Providers[1]),
      Ev("loaded", Providers[2]), Ev("run", "mcp")>>

IsStep(e) == e.ev # "register"

C2_StartupOrder ==
    Host =>
      LET steps == SelectSeq(events, IsStep)
      IN  /\ Len(steps) <= Len(StartupOrder)
          /\ steps = SubSeq(StartupOrder, 1, Len(steps))
          /\ \A i, j \in 1..Len(events) :
                events[i].ev = "run" /\ i < j => events[j].ev # "register"
          /\ RunInvoked => registry = PlannedTools

C2_Witness ==
    /\ Host
    /\ pc = "mcp.run"
    /\ \E t, u \in registry : t[1] = Providers[1] /\ u[1] = Providers[2]

(* C8: the entry point's own code never writes to standard output or       *)
(* standard error; nothing is on standard output before control is handed  *)
(* to run, and in a startup without an exception all that is on the        *)
(* streams was written by the server.                                      *)
C8_HostSilent ==
    Host =>
      /\ \A i \in 1..Len(stdout) : stdout[i].by # "script"
      /\ \A i \in 1..Len(stderr) : stderr[i].by # "script"
      /\ pc \notin {"mcp.run", "exit"} => stdout = <<>>
      /\ err = "none" =>
           /\ stderr = <<>>
           /\ \A i \in 1..Len(stdout) : stdout[i].by = "server"

C8_Witness ==
    /\ Host
    /\ pc = "mcp.run"
    /\ Len(stdout) >= 1

(* C9: an execution as the entry point in which the server object is       *)
(* obtained and no provider raises eventually invokes run, whatever the    *)
(* number of tools the providers register, zero included.                  *)
CleanStart ==
    /\ Host
    /\ name = "__main__"
    /\ pc = "import_server"
    /\ srv
    /\ \A m \in Range(Providers) : ~plan[m].raises

C9_EmptyRegistryReachesRun == CleanStart ~> RunInvoked

C9_Witness ==
    /\ Host
    /\ RunInvoked
    /\ loaded = Providers
    /\ registry = {}

(* C10: loaded as a module (its __name__ is not "__main__"), main.py       *)
(* never invokes run, and when its body has ended without an exception the *)
(* server object is bound, both providers are loaded and their tools are   *)
(* registered; run is invoked only as the program entry point.             *)
C10_RunOnlyAsEntryPoint ==
    Host =>
      /\ RunInvoked => name = "__main__"
      /\ name # "__main__" =>
           /\ pc # "mcp.run"
           /\ pc = "exit" /\ err = "none" =>
                mcp /\ loaded = Providers /\ registry = PlannedTools

C10_Witness ==
    /\ Host
    /\ name = "main"
    /\ pc = "exit"
    /\ err = "none"
    /\ loaded = Providers
    /\ registry # {}

(***************************************************************************)
(* Properties of the Converter.                                            *)
(***************************************************************************)
(* A well-formed CSV: a header of distinct names and data rows of exactly *)
(* as many fields as the header.                                           *)
WellFormed(f) ==
    /\ f.exists
    /\ Len(f.content) >= 1
    /\ \A i, j \in 1..Len(f.content[1]) :
          f.content[1][i] = f.content[1][j] => i = j
    /\ \A i \in 2..Len(f.content) : Len(f.content[i]) = Len(f.content[1])

Converted == Conv /\ err = "none" /\ pc \in {"print", "exit"}

(* C3: with no input file, the run never opens the output file, the       *)
(* output file is as the run found it, nothing is printed, and the run    *)
(* ends at the read with FileNotFoundError.                                *)
C3_MissingInputLeavesOutput ==
    Conv /\ ~input.exists =>
      /\ writes = 0
      /\ out = outAtStart
      /\ stdout = <<>>
      /\ pc \in {"read_csv", "exit"}
      /\ pc = "exit" => err = "FileNotFoundError"

C3_Witness ==
    /\ Conv
    /\ ~input.exists
    /\ pc = "exit"
    /\ ~out.exists

(* C4: after a conversion of a well-formed CSV of N data rows and M        *)
(* columns, the output reads back as N rows of M cells under the header's  *)
(* names in the header's order, each cell the text of the CSV field, and   *)
(* no index column is among the columns.                                   *)
C4_RoundTrip ==
    Converted /\ WellFormed(input) =>
      /\ IsParquet(out)
      /\ LET t == read_parquet(out)
             header == input.content[1]
             N == Len(input.content) - 1
             M == Len(header)
         IN  /\ Len(t.data) = N
             /\ Len(t.columns) = M
             /\ t.columns = header
             /\ \A i \in 1..N :
                  /\ Len(t.data[i]) = M
                  /\ \A j \in 1..M : TextOf(t.data[i][j]) = input.content[i + 1][j]
             /\ \A j \in 1..Len(t.columns) :
                  t.columns[j] \notin {"index", "Unnamed: 0", "__index_level_0__"}

C4_Witness ==
    /\ Converted
    /\ pc = "exit"
    /\ WellFormed(input)
    /\ Len(input.content) >= 2
    /\ Len(input.content[1]) >= 2
    /\ input.content[2][1] # input.content[2][2]

(* C5: standard output holds nothing or the one confirmation line; the    *)
(* line is there only once the read has succeeded and the whole file has   *)
(* been written by this run; and a run that has ended has printed the line *)
(* exactly when it ended without an exception.                             *)
C5_OneConfirmationOnSuccess ==
    Conv =>
      /\ stdout \in {<<>>, <<Line("script", Confirmation)>>}
      /\ stdout # <<>> =>
           /\ read_csv(input).err = "none"
           /\ writes = 1
           /\ out = File(Encode(read_csv(input).df, FALSE))
           /\ pc = "exit"
      /\ pc = "exit" => (stdout # <<>> <=> err = "none")

C5_Witness ==
    /\ Conv
    /\ pc = "exit"
    /\ stdout = <<Line("script", Confirmation)>>
    /\ IsParquet(out)

(* C6: a run whose write of the output failed has ended with that error   *)
(* and printed nothing, and the output file is either as the run found it  *)
(* or does not read as a columnar file.                                    *)
C6_FailedWriteLeavesNoValidFile ==
    Conv /\ err \in {"PermissionError", "OSError"} =>
      /\ pc = "exit"
      /\ stdout = <<>>
      /\ stderr = <<Line("runtime", err)>>
      /\ out # outAtStart => ~IsParquet(out)

C6_Witness ==
    /\ Conv
    /\ err = "OSError"
    /\ outAtStart = StaleFile
    /\ out.exists
    /\ Len(out.content) >= 1
    /\ out # outAtStart

(* C7: after every conversion that follows the first successful one, the  *)
(* output reads back as the table it held after the first.                 *)
C7_RerunSameTable ==
    Converted /\ firstResult.known =>
      /\ IsParquet(out)
      /\ read_parquet(out) = firstResult.table

C7_Witness ==
    /\ Converted
    /\ pc = "exit"
    /\ runs >= 2
    /\ outAtStart = out
    /\ IsParquet(out)
    /\ Len(read_parquet(out).data) >= 1

=============================================================================
